---- MODULE Spec2Model ----
(***************************************************************************)
(* Model of coordinator/tributary/src/tendermint.rs: the Tendermint        *)
(* plug-in of a tributary chain (Signer, Validators, Network).             *)
(*                                                                         *)
(* Four specifications share the variables:                                *)
(*   Spec      the Network adapter driven by the consensus engine, with    *)
(*             the ledger (Blockchain) and the gossip of provided          *)
(*             transactions as its environment;                            *)
(*   SpecSig   Signer::sign and Validators::verify applied once to inputs  *)
(*             drawn from bounded sets;                                    *)
(*   SpecAgg   Validators::verify_aggregate, likewise;                     *)
(*   SpecProp  Validators::proposer, likewise.                             *)
(* Validator ids are public keys of known discrete logarithm, or bytes     *)
(* which encode no point.                                                  *)
(***************************************************************************)
EXTENDS Integers, Sequences, FiniteSets

VARIABLES
  validators,  \* the Validators set of the chain (never reassigned)
  pc,          \* position of the adapter: "idle", "sleeping", "halted"
  arg,         \* add_block: whether it was called, and the payload given
  blk,         \* add_block: the decoded block the retry loop holds
  chain,       \* ledger: the blocks committed so far
  provided,    \* ledger: provided transactions received from peers
  now,         \* clock, in seconds
  wake,        \* add_block: the instant the pending sleep ends
  calls,       \* log of the calls of Blockchain::add_block, with results
  vlog,        \* log of the last Network::validate call
  panic,       \* the panic which halted the adapter, "none" if none
  slashed,     \* validators reported by Network::slash (the log lines)
  bcast,       \* broadcast: the calls made, and the messages handed to the transport
  sg,          \* SpecSig: the inputs and results of the last operation
  pr           \* SpecProp: the inputs and result of the last operation

vars ==
  <<validators, pc, arg, blk, chain, provided, now, wake, calls, vlog, panic, slashed, bcast,
    sg, pr>>

(***************************************************************************)
(* Bounds.                                                                 *)
(***************************************************************************)
MaxTx == 2          \* provided transactions are 1..MaxTx
MaxParent == 1      \* a block names a parent height in 0..MaxParent
MaxAttempts == 3    \* calls of Blockchain::add_block made for one block
MaxLate == 0        \* a sleep overshoots by at most MaxLate seconds
MaxSlash == 1       \* slash calls recorded

Backoff == 30       \* sleep(Duration::from_secs(30))

Txs == 1..MaxTx

(***************************************************************************)
(* Scalars and points of Ristretto, as ideal symbolic values.              *)
(*                                                                         *)
(* A scalar is a linear form with integer coefficients over monomials: the *)
(* unit and the outputs of the transcript, each output an indeterminate    *)
(* named by the transcript's label and inputs.  A point is written by its  *)
(* discrete logarithm to the generator, so it is a linear form too.        *)
(***************************************************************************)
MaxGenesis == 2     \* chain identities are 0..MaxGenesis-1
MaxKey == 2         \* secret keys are the scalars 1..MaxKey
MaxMsgLen == 1      \* messages are the strings of zero bytes of at most this length
MaxSigners == 2     \* lengths of the lists given to verify_aggregate

Zero == [x \in {} |-> 0]

\* 32 bytes: the canonical encoding of a point, of a scalar, or neither
NotCanonical == [enc |-> "none", v |-> Zero]
to_bytes(P) == [enc |-> "point", v |-> P]
to_repr(s) == [enc |-> "scalar", v |-> s]

\* Ciphersuite::read_G and Ciphersuite::read_F
read_G(b) == [ok |-> b.enc = "point", v |-> b.v]
read_F(b) == [ok |-> b.enc = "scalar", v |-> b.v]

Unit == [h |-> "one", g |-> 0, key |-> NotCanonical, nonce |-> NotCanonical, msg |-> <<>>]

Coef(f, m) == IF m \in DOMAIN f THEN f[m] ELSE 0
Mono(m) == [x \in {m} |-> 1]
Add(f, g) ==
  LET D == {m \in DOMAIN f \cup DOMAIN g : Coef(f, m) + Coef(g, m) # 0}
  IN [m \in D |-> Coef(f, m) + Coef(g, m)]
Scale(n, f) == IF n = 0 THEN Zero ELSE [m \in DOMAIN f |-> n * f[m]]
Const(n) == Scale(n, Mono(Unit))
IsConst(f) == DOMAIN f \subseteq {Unit}
\* the product of two scalars, one of which is a constant
Mul(f, g) == IF IsConst(f) THEN Scale(Coef(f, Unit), g) ELSE Scale(Coef(g, Unit), f)

\* Ristretto::generator() * s: the point of discrete logarithm s
generator_mul(s) == s

\* RecommendedTranscript::new(label), append_message(...) and challenge(...),
\* reduced by from_bytes_mod_order_wide: an indeterminate
transcript(label, genesis, key, nonce, msg) ==
  Mono([h |-> label, g |-> genesis, key |-> key, nonce |-> nonce, msg |-> msg])

\* SchnorrSignature::sign
SchnorrSignature_sign(key, nonce, c) ==
  [R |-> generator_mul(nonce), s |-> Add(nonce, Mul(c, key))]

\* SchnorrSignature::serialize and SchnorrSignature::read
SchnorrSignature_serialize(sig) == [R |-> to_bytes(sig.R), s |-> to_repr(sig.s)]
SchnorrSignature_read(b) ==
  [ok |-> read_G(b.R).ok /\ read_F(b.s).ok, R |-> read_G(b.R).v, s |-> read_F(b.s).v]

\* SchnorrSignature::verify: s G = R + c A
SchnorrSignature_verify(sig, A, c) ==
  generator_mul(sig.s) = Add(sig.R, Mul(A, c))

(***************************************************************************)
(* challenge, Signer                                                       *)
(***************************************************************************)
\* challenge without the genesis in its transcript
challenge_NoGenesis(genesis, key, nonce, msg) ==
  transcript("Tributary Chain Tendermint Message", 0, key, nonce, msg)

challenge(genesis, key, nonce, msg) ==
  transcript("Tributary Chain Tendermint Message", genesis, key, nonce, msg)

\* Signer::validator_id
validator_id(signer) == to_bytes(generator_mul(Const(signer.key)))

\* Signer::sign: the signature, or a panic of its assertion
sign(signer, msg) ==
  LET nonce == transcript("Tributary Chain Tendermint Nonce", signer.genesis,
                          to_repr(Const(signer.key)), NotCanonical, msg)
      c == challenge(signer.genesis, to_bytes(generator_mul(Const(signer.key))),
                     to_bytes(generator_mul(nonce)), msg)
  IN IF nonce = Zero
       THEN [panic |-> TRUE, sig |-> [R |-> NotCanonical, s |-> NotCanonical]]
       ELSE [panic |-> FALSE,
             sig |-> SchnorrSignature_serialize(
                       SchnorrSignature_sign(Const(signer.key), nonce, c))]

(***************************************************************************)
(* Validators: SignatureScheme                                             *)
(***************************************************************************)
\* verify_at taking the nonce of the challenge from the wrong half of the
\* signature
verify_at_WrongHalf(v, validator, msg, sig) ==
  IF validator \notin DOMAIN v.weights THEN [res |-> FALSE, at |-> "not a member"]
  ELSE IF ~read_G(validator).ok THEN [res |-> FALSE, at |-> "invalid id"]
  ELSE IF ~SchnorrSignature_read(sig).ok THEN [res |-> FALSE, at |-> "invalid signature"]
  ELSE [res |-> SchnorrSignature_verify(SchnorrSignature_read(sig), read_G(validator).v,
                                        challenge(v.genesis, validator, sig.s, msg)),
        at |-> "equation"]

\* verify_at without the membership check
verify_at_NoMembership(v, validator, msg, sig) ==
  IF ~read_G(validator).ok THEN [res |-> FALSE, at |-> "invalid id"]
  ELSE IF ~SchnorrSignature_read(sig).ok THEN [res |-> FALSE, at |-> "invalid signature"]
  ELSE [res |-> SchnorrSignature_verify(SchnorrSignature_read(sig), read_G(validator).v,
                                        challenge(v.genesis, validator, sig.R, msg)),
        at |-> "equation"]

\* Validators::verify: the result and the return it was produced at
verify_at(v, validator, msg, sig) ==
  IF validator \notin DOMAIN v.weights THEN [res |-> FALSE, at |-> "not a member"]
  ELSE IF ~read_G(validator).ok THEN [res |-> FALSE, at |-> "invalid id"]
  ELSE IF ~SchnorrSignature_read(sig).ok THEN [res |-> FALSE, at |-> "invalid signature"]
  ELSE [res |-> SchnorrSignature_verify(SchnorrSignature_read(sig), read_G(validator).v,
                                        challenge(v.genesis, validator, sig.R, msg)),
        at |-> "equation"]

verify(v, validator, msg, sig) == verify_at(v, validator, msg, sig).res

\* Validators::aggregate
aggregate(sigs) == sigs

\* Validators::verify_aggregate: zip stops at the shorter of the two lists
zip_len(signers, sig) == IF Len(signers) < Len(sig) THEN Len(signers) ELSE Len(sig)
verify_aggregate(v, signers, msg, sig) ==
  \A i \in 1..zip_len(signers, sig) : verify(v, signers[i], msg, sig[i])

(***************************************************************************)
(* Validators: construction and Weights                                    *)
(***************************************************************************)
MaxWeight == 2      \* a member weighs 1..MaxWeight

Genesis == 0..(MaxGenesis - 1)
Keys == 1..MaxKey
Signer == [genesis : Genesis, key : Keys]

\* The validator ids of the model: the public keys of Keys, and 32 bytes
\* which are no point.
NIds == MaxKey + 1
IdSeq == [i \in 1..NIds |-> IF i <= MaxKey THEN to_bytes(generator_mul(Const(i)))
                                          ELSE NotCanonical]
Ids == {IdSeq[i] : i \in 1..NIds}

RECURSIVE SumW(_, _)
SumW(w, i) == IF i > NIds THEN 0 ELSE (IF i \in DOMAIN w THEN w[i] ELSE 0) + SumW(w, i + 1)

RECURSIVE RobinOf(_, _)
RobinOf(w, i) ==
  IF i > NIds THEN <<>>
  ELSE (IF i \in DOMAIN w THEN [j \in 1..w[i] |-> IdSeq[i]] ELSE <<>>) \o RobinOf(w, i + 1)

\* The Validators of the members DOMAIN w (indices of IdSeq) weighing w
new_validators(genesis, w) ==
  [genesis |-> genesis,
   weight |-> SumW(w, 1),
   weights |-> [id \in {IdSeq[i] : i \in DOMAIN w} |->
                  w[CHOOSE i \in DOMAIN w : IdSeq[i] = id]],
   robin |-> RobinOf(w, 1)]

WeightTables == UNION {[S -> 1..MaxWeight] : S \in SUBSET (1..NIds)}
ValidatorSets == {new_validators(g, w) : g \in Genesis, w \in WeightTables}

\* total_weight counting the members
total_weight_Count(v) == Cardinality(DOMAIN v.weights)

\* Validators::total_weight and Validators::weight
total_weight(v) == v.weight
weight(v, validator) == v.weights[validator]

\* 2^e mod L
RECURSIVE Pow2Mod(_, _)
Pow2Mod(e, L) == IF e = 0 THEN 1 % L ELSE (2 * Pow2Mod(e - 1, L)) % L

\* An unsigned 64-bit integer is written n, or 2^64 - n when top.
UsizeBits == 64
MaxBlock == 10      \* block numbers 0..MaxBlock ...
MaxTop == 3         \* ... and 2^64 - MaxTop .. 2^64 - 1
MaxRound == 3       \* round numbers 0..MaxRound
low(n) == [top |-> FALSE, n |-> n]
top(n) == [top |-> TRUE, n |-> n]
BlockNumber == {low(n) : n \in 0..MaxBlock} \cup {top(n) : n \in 1..MaxTop}
RoundNumber == 0..MaxRound

\* x + d in usize, for d < 2^63: the sum, and whether it overflowed
usize_add(x, d) ==
  IF ~x.top THEN [overflow |-> FALSE, val |-> low(x.n + d)]
  ELSE IF d < x.n THEN [overflow |-> FALSE, val |-> top(x.n - d)]
  ELSE [overflow |-> TRUE, val |-> low(d - x.n)]

\* x % L in usize, L > 0
usize_rem(x, L) ==
  IF ~x.top THEN x.n % L ELSE (Pow2Mod(UsizeBits, L) + L - (x.n % L)) % L

\* proposer jumping halfway around on round 0 too
proposer_JumpAlways(v, block, round, checks) ==
  LET L == Len(v.robin)
      sum == usize_add(block, round + (L \div 2))
  IN IF (sum.overflow /\ checks) \/ L = 0
       THEN [panic |-> TRUE, index |-> 0, id |-> NotCanonical]
       ELSE [panic |-> FALSE, index |-> usize_rem(sum.val, L),
             id |-> v.robin[usize_rem(sum.val, L) + 1]]

\* proposer adding the plain round, without the jump halfway around
proposer_Naive(v, block, round, checks) ==
  LET L == Len(v.robin)
      sum == usize_add(block, round)
  IN IF (sum.overflow /\ checks) \/ L = 0
       THEN [panic |-> TRUE, index |-> 0, id |-> NotCanonical]
       ELSE [panic |-> FALSE, index |-> usize_rem(sum.val, L),
             id |-> v.robin[usize_rem(sum.val, L) + 1]]

\* Validators::proposer, built with (checks) or without overflow checks:
\* a panic, or the schedule entry and its index (from 0)
proposer(v, block, round, checks) ==
  LET L == Len(v.robin)
      offset == IF round = 0 THEN 0 ELSE round + (L \div 2)
      sum == usize_add(block, offset)
  IN IF (sum.overflow /\ checks) \/ L = 0
       THEN [panic |-> TRUE, index |-> 0, id |-> NotCanonical]
       ELSE [panic |-> FALSE, index |-> usize_rem(sum.val, L),
             id |-> v.robin[usize_rem(sum.val, L) + 1]]

(***************************************************************************)
(* Blocks and their serializations.                                        *)
(***************************************************************************)
\* A ledger block: the height of its parent, the provided transactions it
\* carries and whether (and where) it has a structural fault.
Block ==
  [parent : 0..MaxParent, needs : SUBSET Txs, fault : {"none", "early", "late"}]

\* The payload of a TendermintBlock: either the serialization of a block or
\* bytes which are not one.
Malformed == [wf |-> FALSE, parent |-> 0, needs |-> {}, fault |-> "none"]
serialize(b) == [wf |-> TRUE, parent |-> b.parent, needs |-> b.needs, fault |-> b.fault]
TendermintBlock == {Malformed} \cup {serialize(b) : b \in Block}

\* Block::read: Ok(block) or Err
Block_read(p) ==
  IF p.wf
    THEN [ok |-> TRUE, block |-> [parent |-> p.parent, needs |-> p.needs, fault |-> p.fault]]
    ELSE [ok |-> FALSE, block |-> [parent |-> 0, needs |-> {}, fault |-> "none"]]

NoBlock == [parent |-> 0, needs |-> {}, fault |-> "none"]

(***************************************************************************)
(* The ledger (Blockchain).                                                *)
(***************************************************************************)
Ok == [kind |-> "Ok", hash |-> 0]
MissingProvided(h) == [kind |-> "MissingProvided", hash |-> h]
OtherFault(k) == [kind |-> k, hash |-> 0]

Min(S) == CHOOSE x \in S : \A y \in S : x <= y

\* Blockchain::verify_block on the ledger state (ch, prov)
verify_block(ch, prov, b) ==
  IF b.parent # Len(ch) THEN OtherFault("InvalidParent")
  ELSE IF b.fault = "early" THEN OtherFault("TransactionError")
  ELSE IF b.needs \ prov # {} THEN MissingProvided(Min(b.needs \ prov))
  ELSE IF b.fault = "late" THEN OtherFault("TransactionError")
  ELSE Ok

\* Blockchain::add_block: the result, and the chain after the call
ledger_add_block(ch, prov, b) ==
  LET r == verify_block(ch, prov, b)
  IN [res |-> r, chain |-> IF r = Ok THEN Append(ch, b) ELSE ch]

(***************************************************************************)
(* Network::validate                                                       *)
(***************************************************************************)
\* validate_map_err without the MissingProvided arm
validate_map_err_AllFatal(e) == "Fatal"

\* the map_err closure of validate
validate_map_err(e) ==
  IF e.kind = "MissingProvided" THEN "Temporal" ELSE "Fatal"

\* the result of validate and whether verify_block was called
validate(ch, prov, p) ==
  LET rd == Block_read(p)
  IN IF ~rd.ok
       THEN [res |-> "Fatal", verified |-> FALSE, ledger |-> Ok]
       ELSE LET r == verify_block(ch, prov, rd.block)
            IN [res |-> IF r = Ok THEN "Ok" ELSE validate_map_err(r),
                verified |-> TRUE, ledger |-> r]

NoValidate == [called |-> FALSE, payload |-> Malformed, res |-> "Ok", verified |-> FALSE,
               ledger |-> Ok, prior |-> {}]

\* the transactions the ledger has named missing in the Temporal results
\* which the calls just before this one returned for the same payload p
PriorOf(p) ==
  IF vlog.called /\ vlog.payload = p /\ vlog.res = "Temporal"
    THEN vlog.prior \cup {vlog.ledger.hash}
    ELSE {}

\* validate committing the block it has verified
Validate_Commits(p) ==
  /\ pc = "idle"
  /\ LET v == validate(chain, provided, p)
     IN /\ vlog' = [called |-> TRUE, payload |-> p, res |-> v.res, verified |-> v.verified,
                    ledger |-> v.ledger, prior |-> PriorOf(p)]
        /\ chain' = IF v.verified
                      THEN ledger_add_block(chain, provided, Block_read(p).block).chain
                      ELSE chain
  /\ UNCHANGED <<validators, pc, arg, blk, provided, now, wake, calls, panic, slashed, bcast, sg, pr>>

Validate(p) ==
  /\ pc = "idle"
  /\ LET v == validate(chain, provided, p)
     IN vlog' = [called |-> TRUE, payload |-> p, res |-> v.res, verified |-> v.verified,
                 ledger |-> v.ledger, prior |-> PriorOf(p)]
  /\ UNCHANGED <<validators, pc, arg, blk, chain, provided, now, wake, calls, panic, slashed, bcast, sg, pr>>

(***************************************************************************)
(* Network::add_block                                                      *)
(***************************************************************************)
\* Attempt retrying at once, without the sleep
Attempt_NoSleep(b, t) ==
  LET a == ledger_add_block(chain, provided, b)
  IN /\ calls' = Append(calls, [blk |-> b, res |-> a.res, at |-> t])
     /\ chain' = a.chain
     /\ blk' = b
     /\ now' = t
     /\ IF a.res = Ok
          THEN /\ pc' = "halted"
               /\ panic' = "not yet implemented"
               /\ wake' = wake
          ELSE IF a.res.kind = "MissingProvided"
          THEN /\ pc' = "sleeping"
               /\ panic' = panic
               /\ wake' = t
          ELSE /\ pc' = "halted"
               /\ panic' = "invalid block"
               /\ wake' = wake

\* Attempt with a retry cap: a second MissingProvided fault is fatal
Attempt_GiveUp(b, t) ==
  LET a == ledger_add_block(chain, provided, b)
  IN /\ calls' = Append(calls, [blk |-> b, res |-> a.res, at |-> t])
     /\ chain' = a.chain
     /\ blk' = b
     /\ now' = t
     /\ IF a.res = Ok
          THEN /\ pc' = "halted"
               /\ panic' = "not yet implemented"
               /\ wake' = wake
          ELSE IF a.res.kind = "MissingProvided" /\ calls = <<>>
          THEN /\ pc' = "sleeping"
               /\ panic' = panic
               /\ wake' = t + Backoff
          ELSE /\ pc' = "halted"
               /\ panic' = "invalid block"
               /\ wake' = wake

\* Attempt sleeping and retrying on every fault
Attempt_RetryAll(b, t) ==
  LET a == ledger_add_block(chain, provided, b)
  IN /\ calls' = Append(calls, [blk |-> b, res |-> a.res, at |-> t])
     /\ chain' = a.chain
     /\ blk' = b
     /\ now' = t
     /\ IF a.res = Ok
          THEN /\ pc' = "halted"
               /\ panic' = "not yet implemented"
               /\ wake' = wake
          ELSE /\ pc' = "sleeping"
               /\ panic' = panic
               /\ wake' = t + Backoff

\* One iteration of the loop at instant t: the call of Blockchain::add_block
\* and the arm of the match taken on its result.
Attempt(b, t) ==
  LET a == ledger_add_block(chain, provided, b)
  IN /\ calls' = Append(calls, [blk |-> b, res |-> a.res, at |-> t])
     /\ chain' = a.chain
     /\ blk' = b
     /\ now' = t
     /\ IF a.res = Ok
          \* break, then todo!()
          THEN /\ pc' = "halted"
               /\ panic' = "not yet implemented"
               /\ wake' = wake
          ELSE IF a.res.kind = "MissingProvided"
          \* log::error!, then sleep(30 s)
          THEN /\ pc' = "sleeping"
               /\ panic' = panic
               /\ wake' = t + Backoff
          \* invalid_block()
          ELSE /\ pc' = "halted"
               /\ panic' = "invalid block"
               /\ wake' = wake

\* AddBlock committing the default block when the payload does not decode
AddBlock_Default(p) ==
  /\ pc = "idle"
  /\ arg' = [called |-> TRUE, payload |-> p]
  /\ Attempt(Block_read(p).block, now)
  /\ UNCHANGED <<validators, provided, vlog, slashed, bcast, sg, pr>>

\* The engine calls add_block(p, commit): the decoding and the first
\* iteration of the loop.
AddBlock(p) ==
  /\ pc = "idle"
  /\ arg' = [called |-> TRUE, payload |-> p]
  /\ LET rd == Block_read(p)
     IN IF ~rd.ok
          THEN /\ pc' = "halted"
               /\ panic' = "invalid block"
               /\ UNCHANGED <<blk, chain, now, wake, calls>>
          ELSE Attempt(rd.block, now)
  /\ UNCHANGED <<validators, provided, vlog, slashed, bcast, sg, pr>>

\* The sleep ends, late seconds after its deadline, and the loop iterates.
Retry(late) ==
  /\ pc = "sleeping"
  /\ Len(calls) < MaxAttempts
  /\ Attempt(blk, wake + late)
  /\ UNCHANGED <<validators, arg, provided, vlog, slashed, bcast, sg, pr>>

(***************************************************************************)
(* Network::slash and Network::broadcast                                   *)
(***************************************************************************)
\* Slash applying the penalty: the validator leaves the set
Slash_Remove(v) ==
  /\ pc = "idle"
  /\ Len(slashed) < MaxSlash
  /\ slashed' = Append(slashed, v)
  /\ validators' =
       [genesis |-> validators.genesis,
        weight |-> validators.weight
                     - (IF v \in DOMAIN validators.weights THEN validators.weights[v] ELSE 0),
        weights |-> [id \in DOMAIN validators.weights \ {v} |-> validators.weights[id]],
        robin |-> SelectSeq(validators.robin, LAMBDA x : x # v)]
  /\ UNCHANGED <<pc, arg, blk, chain, provided, now, wake, calls, vlog, panic, bcast, sg, pr>>

Slash(v) ==
  /\ pc = "idle"
  /\ Len(slashed) < MaxSlash
  /\ slashed' = Append(slashed, v)
  /\ UNCHANGED <<validators, pc, arg, blk, chain, provided, now, wake, calls, vlog, panic, bcast, sg, pr>>

\* todo!()
Broadcast ==
  /\ pc = "idle"
  /\ bcast' = [bcast EXCEPT !.calls = 1]
  /\ pc' = "halted"
  /\ panic' = "not yet implemented"
  /\ UNCHANGED <<validators, arg, blk, chain, provided, now, wake, calls, vlog, slashed, sg, pr>>

(***************************************************************************)
(* The environment: a provided transaction arrives from the peers.         *)
(***************************************************************************)
Provide(tx) ==
  /\ tx \notin provided
  /\ provided' = provided \cup {tx}
  /\ UNCHANGED <<validators, pc, arg, blk, chain, now, wake, calls, vlog, panic, slashed, bcast, sg, pr>>

(***************************************************************************)
(* The adapter driven by the engine.                                       *)
(***************************************************************************)
NoSig == [op |-> "none"]
NoProp == [op |-> "none"]

\* the state after construction, for the Validators v
InitOf(v) ==
  /\ validators = v
  /\ pc = "idle"
  /\ arg = [called |-> FALSE, payload |-> Malformed]
  /\ blk = NoBlock
  /\ chain = <<>>
  /\ provided = {}
  /\ now = 0
  /\ wake = 0
  /\ calls = <<>>
  /\ vlog = NoValidate
  /\ panic = "none"
  /\ slashed = <<>>
  /\ bcast = [calls |-> 0, handed |-> 0]
  /\ sg = NoSig
  /\ pr = NoProp

\* The adapter is run for the chain of genesis 0, with every validator a
\* member, of unequal weights.
ChainWeights == [i \in 1..NIds |-> ((i - 1) % MaxWeight) + 1]
Init == InitOf(new_validators(0, ChainWeights))

Next ==
  \/ \E p \in TendermintBlock : Validate(p)
  \/ \E p \in TendermintBlock : AddBlock(p)
  \/ \E late \in 0..MaxLate : Retry(late)
  \/ \E v \in Ids : Slash(v)
  \/ Broadcast
  \/ \E tx \in Txs : Provide(tx)

Spec == Init /\ [][Next]_vars

\* The timer of a pending sleep fires: the loop is not left waiting forever.
SpecLive == Spec /\ WF_vars(\E late \in 0..MaxLate : Retry(late))

(***************************************************************************)
(* Signer::sign and Validators::verify on drawn inputs.                    *)
(***************************************************************************)
Msgs == {[i \in 1..n |-> 0] : n \in 0..MaxMsgLen}

\* What a third party may do to a signature before it is verified.
Tampers == {"none", "R invalid", "s invalid", "R other", "s other"}
Tamper(sig, how) ==
  IF how = "R invalid" THEN [sig EXCEPT !.R = NotCanonical]
  ELSE IF how = "s invalid" THEN [sig EXCEPT !.s = NotCanonical]
  ELSE IF how = "R other" THEN [sig EXCEPT !.R = to_bytes(Add(sig.R.v, Const(1)))]
  ELSE IF how = "s other" THEN [sig EXCEPT !.s = to_repr(Add(sig.s.v, Const(1)))]
  ELSE sig

DoSign(signer, msg) ==
  /\ sg = NoSig
  /\ sg' = [op |-> "sign", signer |-> signer, msg |-> msg, out |-> sign(signer, msg)]
  /\ UNCHANGED <<validators, pc, arg, blk, chain, provided, now, wake, calls, vlog, panic, slashed, bcast, pr>>

\* signer signs signed, the signature is tampered with, and the Validators
\* verify it for validator and msg
DoVerify(signer, signed, how, validator, msg) ==
  /\ sg = NoSig
  /\ ~sign(signer, signed).panic
  /\ LET sig == Tamper(sign(signer, signed).sig, how)
         r == verify_at(validators, validator, msg, sig)
     IN sg' = [op |-> "verify", signer |-> signer, signed |-> signed, how |-> how,
               validator |-> validator, msg |-> msg, sig |-> sig, res |-> r.res, at |-> r.at]
  /\ UNCHANGED <<validators, pc, arg, blk, chain, provided, now, wake, calls, vlog, panic, slashed, bcast, pr>>

\* the weights play no part in the signature scheme
InitSig ==
  \E g \in Genesis, S \in SUBSET (1..NIds) : InitOf(new_validators(g, [i \in S |-> 1]))

NextSig ==
  \/ \E s \in Signer, m \in Msgs : DoSign(s, m)
  \/ \E s \in Signer, m \in Msgs, how \in Tampers, id \in Ids, m2 \in Msgs :
       DoVerify(s, m, how, id, m2)

SpecSig == InitSig /\ [][NextSig]_vars

(***************************************************************************)
(* Validators::verify_aggregate on drawn inputs.                           *)
(***************************************************************************)
SeqsUpTo(S, n) == UNION {[1..k -> S] : k \in 0..n}

\* the signatures of the chain's signers, and 64 bytes which are none
AggSigs ==
  {sign([genesis |-> validators.genesis, key |-> k], m).sig : k \in Keys, m \in Msgs}
    \cup {[R |-> NotCanonical, s |-> NotCanonical]}

DoVerifyAggregate(signers, msg, sigs) ==
  /\ sg = NoSig
  /\ sg' = [op |-> "verify_aggregate", signers |-> signers, msg |-> msg,
            sig |-> aggregate(sigs),
            res |-> verify_aggregate(validators, signers, msg, aggregate(sigs))]
  /\ UNCHANGED <<validators, pc, arg, blk, chain, provided, now, wake, calls, vlog, panic, slashed, bcast, pr>>

NextAgg ==
  \E signers \in SeqsUpTo(Ids, MaxSigners), m \in Msgs, sigs \in SeqsUpTo(AggSigs, MaxSigners) :
    DoVerifyAggregate(signers, m, sigs)

SpecAgg == InitSig /\ [][NextAgg]_vars

(***************************************************************************)
(* Validators::proposer on drawn inputs.                                   *)
(***************************************************************************)
DoProposer(block, round, checks) ==
  /\ pr = NoProp
  /\ pr' = [op |-> "proposer", block |-> block, round |-> round, checks |-> checks,
            out |-> proposer(validators, block, round, checks)]
  /\ UNCHANGED <<validators, pc, arg, blk, chain, provided, now, wake, calls, vlog, panic, slashed, bcast, sg>>

NextProp ==
  \E b \in BlockNumber, r \in RoundNumber, checks \in BOOLEAN : DoProposer(b, r, checks)

\* a committee of 4 validators, of weights 1, 1, 1, 1
Committee4 ==
  [genesis |-> 0,
   weight |-> 4,
   weights |-> [id \in {to_bytes(generator_mul(Const(i))) : i \in 1..4} |-> 1],
   robin |-> [i \in 1..4 |-> to_bytes(generator_mul(Const(i)))]]

InitProp == \E v \in ValidatorSets \cup {Committee4} : InitOf(v)

SpecProp == InitProp /\ [][NextProp]_vars

(***************************************************************************)
(* Properties.                                                             *)
(***************************************************************************)
Last(q) == q[Len(q)]
Missing(c) == c.res.kind = "MissingProvided"
OtherFaulted(c) == c.res.kind \notin {"Ok", "MissingProvided"}

\* C1: Network::validate is Fatal on a payload which does not deserialize,
\* without calling verify_block; else it calls verify_block and is Ok on Ok,
\* Temporal on a MissingProvided fault and Fatal on every other fault.
C1_ValidateClassifies ==
  vlog.called =>
    IF ~Block_read(vlog.payload).ok
      THEN vlog.res = "Fatal" /\ ~vlog.verified
      ELSE /\ vlog.verified
           /\ vlog.ledger = Ok => vlog.res = "Ok"
           /\ vlog.ledger.kind = "MissingProvided" => vlog.res = "Temporal"
           /\ vlog.ledger.kind \notin {"Ok", "MissingProvided"} => vlog.res = "Fatal"

C1_Witness ==
  /\ vlog.called
  /\ Block_read(vlog.payload).ok
  /\ vlog.ledger.kind = "MissingProvided"
  /\ vlog.res = "Temporal"

\* C2: after every MissingProvided fault of Blockchain::add_block the
\* adapter neither halts nor panics: it sleeps until Backoff seconds after
\* the call, and the next call, no sooner than that, is given the same block.
C2_MissingProvidedRetries ==
  \A i \in 1..Len(calls) :
    Missing(calls[i]) =>
      IF i = Len(calls)
        THEN /\ pc = "sleeping"
             /\ panic = "none"
             /\ blk = calls[i].blk
             /\ wake = calls[i].at + Backoff
        ELSE /\ calls[i + 1].blk = calls[i].blk
             /\ calls[i + 1].at >= calls[i].at + Backoff

C2_Witness ==
  /\ Len(calls) = 3
  /\ Missing(calls[1])
  /\ Missing(calls[2])
  /\ calls[3].blk = calls[1].blk
  /\ calls[3].blk = Block_read(arg.payload).block

\* C3: a fault of Blockchain::add_block other than MissingProvided is the
\* last call made: the adapter is halted by the invalid-block panic, and
\* once halted it stays halted, calls the ledger no more and commits nothing.
C3_OtherFaultHalts ==
  /\ [](\A i \in 1..Len(calls) :
          OtherFaulted(calls[i]) =>
            i = Len(calls) /\ pc = "halted" /\ panic = "invalid block")
  /\ [][pc = "halted" => pc' = "halted" /\ calls' = calls /\ chain' = chain]_vars

C3_Witness ==
  /\ Len(calls) >= 2
  /\ Missing(calls[1])
  /\ OtherFaulted(Last(calls))
  /\ pc = "halted"
  /\ chain = <<>>

\* C4: whenever Blockchain::add_block returned Ok, Network::add_block has
\* advanced the ledger and returned to the engine, without halting.
C4_OkReturns ==
  \A i \in 1..Len(calls) :
    calls[i].res = Ok =>
      /\ chain # <<>>
      /\ Last(chain) = calls[i].blk
      /\ pc = "idle"
      /\ panic = "none"

\* C5: add_block on a payload which does not deserialize halts with the
\* invalid-block panic without any call of Blockchain::add_block, leaving
\* the ledger as it was and returning nothing to the engine.
C5_MalformedHalts ==
  /\ [][(~arg.called /\ arg'.called /\ ~Block_read(arg'.payload).ok) =>
          /\ pc' = "halted"
          /\ panic' = "invalid block"
          /\ calls' = calls
          /\ chain' = chain
          /\ provided' = provided]_vars
  /\ []((arg.called /\ ~Block_read(arg.payload).ok) =>
          pc = "halted" /\ panic = "invalid block" /\ calls = <<>> /\ chain = <<>>)

C5_Witness ==
  /\ arg.called
  /\ ~Block_read(arg.payload).ok
  /\ pc = "halted"
  /\ calls = <<>>
  /\ provided # {}

\* C6: a signature of a non-empty message by a Signer of the Validators'
\* chain, whose validator id is a member, verifies for that id and message.
C6_SignVerifies ==
  ( /\ sg.op = "verify"
    /\ sg.how = "none"
    /\ sg.signer.genesis = validators.genesis
    /\ sg.validator = validator_id(sg.signer)
    /\ sg.validator \in DOMAIN validators.weights
    /\ sg.msg = sg.signed
    /\ sg.msg # <<>> ) => sg.res = TRUE

C6_Witness ==
  /\ sg.op = "verify"
  /\ sg.how = "none"
  /\ sg.signer.genesis = validators.genesis
  /\ sg.validator = validator_id(sg.signer)
  /\ sg.validator \in DOMAIN validators.weights
  /\ sg.msg = sg.signed
  /\ sg.msg # <<>>
  /\ sg.at = "equation"
  /\ sg.res = TRUE

C8_AggregateIff ==
  sg.op = "verify_aggregate" =>
    (sg.res <=>
       /\ Len(sg.signers) = Len(sg.sig)
       /\ \A i \in 1..Len(sg.signers) :
            verify(validators, sg.signers[i], sg.msg, sg.sig[i]))

\* C9: verify yields a boolean; false for an id which is no member, false
\* when the id or the signature does not parse; the Schnorr equation is
\* reached only for a member id and a signature which both parse.
C9_VerifyTotal ==
  sg.op = "verify" =>
    /\ sg.res \in BOOLEAN
    /\ sg.validator \notin DOMAIN validators.weights => sg.res = FALSE
    /\ ~read_G(sg.validator).ok => sg.res = FALSE
    /\ ~SchnorrSignature_read(sg.sig).ok => sg.res = FALSE
    /\ sg.at = "equation" =>
         /\ sg.validator \in DOMAIN validators.weights
         /\ read_G(sg.validator).ok
         /\ SchnorrSignature_read(sg.sig).ok

C9_Witness ==
  /\ sg.op = "verify"
  /\ sg.how = "none"
  /\ sg.signer.genesis = validators.genesis
  /\ sg.validator = validator_id(sg.signer)
  /\ sg.validator \notin DOMAIN validators.weights
  /\ sg.msg = sg.signed
  /\ sg.res = FALSE

\* The index the schedule is read at, in unbounded arithmetic:
\* (block + offset) mod L
BlockMod(b, L) == IF b.top THEN (Pow2Mod(64, L) + L - (b.n % L)) % L ELSE b.n % L
Offset(r, L) == IF r = 0 THEN 0 ELSE r + (L \div 2)
ScheduleIndex(b, r, L) == (BlockMod(b, L) + Offset(r, L)) % L
\* block + offset < 2^64
Fits(b, r, L) == ~b.top \/ Offset(r, L) < b.n

\* C10 (as stated): for a non-empty schedule, proposer returns the entry at
\* (block + offset) mod L for every block and round.
C10_ProposerIndex ==
  (pr.op = "proposer" /\ validators.robin # <<>>) =>
    /\ ~pr.out.panic
    /\ pr.out.index = ScheduleIndex(pr.block, pr.round, Len(validators.robin))
    /\ pr.out.id = validators.robin[ScheduleIndex(pr.block, pr.round, Len(validators.robin)) + 1]

\* C10 (amended): for a non-empty schedule and block + offset < 2^64,
\* proposer returns the entry at (block + offset) mod L, whatever the build;
\* for round 0 that is the entry at block mod L.
C10_ProposerIndexFits ==
  ( /\ pr.op = "proposer"
    /\ validators.robin # <<>>
    /\ Fits(pr.block, pr.round, Len(validators.robin)) ) =>
    /\ ~pr.out.panic
    /\ pr.out.index = ScheduleIndex(pr.block, pr.round, Len(validators.robin))
    /\ pr.out.id = validators.robin[ScheduleIndex(pr.block, pr.round, Len(validators.robin)) + 1]
    /\ pr.round = 0 => pr.out.index = BlockMod(pr.block, Len(validators.robin))

C10_Witness ==
  /\ pr.op = "proposer"
  /\ Len(validators.robin) = 3
  /\ pr.block = top(3)
  /\ pr.round = 1
  /\ ~pr.out.panic
  /\ pr.out.index = 0

\* the index proposer reads for round 0 of the block of the last call
Round0Index == proposer(validators, pr.block, 0, pr.checks).index

\* C11 (as stated): the indices of round 0 and of round 2 of a block differ
\* whenever the schedule is longer than 2, as for the committee of 4 at
\* block 10.
C11_Round2Differs ==
  (pr.op = "proposer" /\ pr.round = 2 /\ Len(validators.robin) > 2) =>
    ~pr.out.panic /\ pr.out.index # Round0Index

\* C11 (amended): for block + 2 + L/2 < 2^64 the indices of round 0 and of
\* round 2 are equal exactly when L divides 2 + L/2, that is for L = 1, 3
\* and 4; for the committee of 4 at block 10 both are 2.
C11_Round2DiffersUnlessWrap ==
  ( /\ pr.op = "proposer"
    /\ pr.round = 2
    /\ validators.robin # <<>>
    /\ Fits(pr.block, 2, Len(validators.robin)) ) =>
    /\ ~pr.out.panic
    /\ pr.out.index = Round0Index <=> Len(validators.robin) \in {1, 3, 4}
    /\ (validators = Committee4 /\ pr.block = low(10)) =>
         pr.out.index = 2 /\ Round0Index = 2

C11_Witness ==
  /\ pr.op = "proposer"
  /\ validators = Committee4
  /\ pr.block = low(10)
  /\ pr.round = 2
  /\ pr.out.index = 2
  /\ Round0Index = 2

\* the sum of weight(id) over the ids of S
RECURSIVE SumWeight(_, _)
SumWeight(v, S) ==
  IF S = {} THEN 0
  ELSE LET id == CHOOSE x \in S : TRUE IN weight(v, id) + SumWeight(v, S \ {id})

InSchedule(v, id) == \E i \in 1..Len(v.robin) : v.robin[i] = id

\* C12: total_weight() is the sum of weight(id) over the membership table,
\* every id of the table is in the proposer schedule, and no step of the
\* adapter changes the Validators.
C12_ValidatorsFixed ==
  /\ [](/\ total_weight(validators) = SumWeight(validators, DOMAIN validators.weights)
        /\ \A id \in DOMAIN validators.weights : InSchedule(validators, id))
  /\ [][validators' = validators]_vars

C12_Witness ==
  /\ slashed # <<>>
  /\ vlog.called
  /\ calls # <<>>
  /\ pc = "halted"
  /\ total_weight(validators) = SumWeight(validators, DOMAIN validators.weights)
  /\ total_weight(validators) > Cardinality(DOMAIN validators.weights)

\* C13: every broadcast call hands its message to the transport and
\* returns to the engine, without halting.
C13_BroadcastDelivers ==
  bcast.calls > 0 =>
    /\ bcast.handed = bcast.calls
    /\ pc = "idle"
    /\ panic = "none"

\* the Validators the adapter was constructed with
Constructed == new_validators(0, ChainWeights)

\* C14: a slash call changes neither the Validators nor the ledger nor the
\* position of the adapter; after it the slashed validator is a member of
\* the same weight, the signatures of its Signer verify and the schedule
\* still selects it.
C14_SlashOnlyRecords ==
  [][slashed' # slashed =>
       /\ validators' = validators
       /\ chain' = chain
       /\ provided' = provided
       /\ calls' = calls
       /\ pc' = pc
       /\ panic' = panic
       /\ LET id == Last(slashed')
          IN id \in DOMAIN Constructed.weights =>
               /\ id \in DOMAIN validators'.weights
               /\ weight(validators', id) = weight(Constructed, id)
               /\ total_weight(validators') = total_weight(Constructed)
               /\ validators'.robin = Constructed.robin
               /\ \A k \in Keys, m \in Msgs :
                    LET signer == [genesis |-> validators'.genesis, key |-> k]
                    IN id = validator_id(signer) =>
                         verify(validators', id, m, sign(signer, m).sig)
               /\ \E b \in BlockNumber, r \in RoundNumber :
                    /\ ~proposer(validators', b, r, TRUE).panic
                    /\ proposer(validators', b, r, TRUE).id = id]_vars

C14_Witness ==
  /\ slashed # <<>>
  /\ slashed[1] = validator_id([genesis |-> 0, key |-> 1])
  /\ slashed[1] \in DOMAIN validators.weights
  /\ verify(validators, slashed[1], <<0>>, sign([genesis |-> 0, key |-> 1], <<0>>).sig)
  /\ proposer(validators, low(0), 0, TRUE).id = slashed[1]
  /\ vlog.called

\* C15: the retry loop is left only by an Ok or by a fault other than
\* MissingProvided; as long as a provided transaction of the block is
\* missing the adapter stays in the loop, neither returning nor halting;
\* once they have all arrived, the next iteration leaves the loop.
C15_RetryUnbounded ==
  /\ [][(pc = "sleeping" /\ pc' # "sleeping") =>
          /\ Len(calls') = Len(calls) + 1
          /\ ~Missing(Last(calls'))]_vars
  /\ [][(pc = "sleeping" /\ ~(blk.needs \subseteq provided)) =>
          pc' = "sleeping" /\ panic' = "none"]_vars
  /\ (pc = "sleeping" /\ blk.needs \subseteq provided /\ Len(calls) < MaxAttempts)
       ~> (pc # "sleeping")

C15_Witness ==
  /\ Len(calls) >= 2
  /\ Missing(calls[1])
  /\ Last(calls).res = Ok
  /\ Last(chain) = calls[1].blk
  /\ pc = "halted"

\* validate leaves the ledger and the adapter as they were: it adds no block,
\* makes no add_block call and provides no transaction.
ValidateFrame ==
  (vlog' # vlog) =>
    /\ chain' = chain
    /\ calls' = calls
    /\ provided' = provided
    /\ pc' = pc
    /\ panic' = panic

\* a block which got Temporal is validated again once the transaction the
\* fault named has arrived
Revalidated ==
  /\ vlog.called
  /\ vlog.res = "Temporal"
  /\ vlog.ledger.hash \in provided
  /\ vlog' # vlog
  /\ vlog'.payload = vlog.payload

====
